---------------------------- MODULE Spec2Model ----------------------------
(***************************************************************************)
(* A model of sqlite-server.py: the initiator-topology query bridge.  The  *)
(* process connects to a peer, greets it (HELLO + engine name), then       *)
(* serves EXECUTE and PREPARE commands over a line protocol, streaming     *)
(* result rows in pages of three.                                          *)
(*                                                                         *)
(* Texts are sequences of code points, byte strings are sequences of      *)
(* 0..255, and a data line is the sequence of base64 symbols (0..63, with  *)
(* 64 standing for the pad character '=') that the codec writes.           *)
(***************************************************************************)
EXTENDS Integers, Sequences, FiniteSets, TLC

(***************************************************************************)
(* Bounds of the model.                                                    *)
(***************************************************************************)
\* largest number of rows a result set holds
MaxRows == 7
\* largest number of columns of a result set
MaxCols == 2
\* largest number of commands the peer sends in one session
MaxCmds == 2
\* longest byte sequence handed to send_data in the loop-back of a frame
MaxLen == 3

(***************************************************************************)
(* Program constants.                                                      *)
(***************************************************************************)
\* the checkpoint interval, line 42: if page_row == 3
PageSize == 3

(***************************************************************************)
(* Python values.  A value is a record [ty, v]; ty is the Python type.     *)
(***************************************************************************)
PyNone == [ty |-> "None", v |-> <<>>]
PyStr(s) == [ty |-> "str", v |-> s]
PyBytes(b) == [ty |-> "bytes", v |-> b]
PyInt(n) == [ty |-> "int", v |-> n]
PyFloat(whole, tenths) == [ty |-> "float", v |-> <<whole, tenths>>]
\* the outcome of a call that raised: ty "exc", v the exception class
Raised(cls) == [ty |-> "exc", v |-> cls]

\* literal texts of the program, as code points
TxtNull == <<60, 110, 117, 108, 108, 62>>
TxtSqlite == <<115, 113, 108, 105, 116, 101>>
TxtUnknownError == <<85, 110, 107, 110, 111, 119, 110, 32, 101, 114, 114, 111, 114>>
TxtDynamic == <<68, 89, 78, 65, 77, 73, 67>>

(***************************************************************************)
(* Conversions.                                                            *)
(***************************************************************************)
RECURSIVE NatStr(_)
NatStr(n) == IF n < 10 THEN <<48 + n>> ELSE NatStr(n \div 10) \o <<48 + (n % 10)>>

\* str(n) of an integer: its decimal text
IntStr(n) == IF n < 0 THEN <<45>> \o NatStr(0 - n) ELSE NatStr(n)

\* str(x) of a float with one decimal digit
FloatStr(f) == IntStr(f[1]) \o <<46>> \o NatStr(f[2])

\* the UTF-8 bytes of one code point (up to three bytes)
Utf8Char(cp) ==
    IF cp < 128 THEN <<cp>>
    ELSE IF cp < 2048 THEN <<192 + (cp \div 64), 128 + (cp % 64)>>
    ELSE <<224 + (cp \div 4096), 128 + ((cp \div 64) % 64), 128 + (cp % 64)>>

RECURSIVE Utf8Encode(_)
\* s.encode('utf-8')
Utf8Encode(s) ==
    IF s = <<>> THEN <<>> ELSE Utf8Char(Head(s)) \o Utf8Encode(Tail(s))

RECURSIVE b64encode_unpadded(_)
\* base64 without the '=' padding of the tail
b64encode_unpadded(b) ==
    IF Len(b) = 0 THEN <<>>
    ELSE IF Len(b) = 1
        THEN <<b[1] \div 4, (b[1] % 4) * 16>>
    ELSE IF Len(b) = 2
        THEN <<b[1] \div 4, (b[1] % 4) * 16 + (b[2] \div 16), (b[2] % 16) * 4>>
    ELSE <<b[1] \div 4, (b[1] % 4) * 16 + (b[2] \div 16),
           (b[2] % 16) * 4 + (b[3] \div 64), b[3] % 64>>
         \o b64encode_unpadded(SubSeq(b, 4, Len(b)))

RECURSIVE b64encode(_)
\* base64.b64encode(b): three bytes to four symbols, '=' (64) padding the tail
b64encode(b) ==
    IF Len(b) = 0 THEN <<>>
    ELSE IF Len(b) = 1
        THEN <<b[1] \div 4, (b[1] % 4) * 16, 64, 64>>
    ELSE IF Len(b) = 2
        THEN <<b[1] \div 4, (b[1] % 4) * 16 + (b[2] \div 16), (b[2] % 16) * 4, 64>>
    ELSE <<b[1] \div 4, (b[1] % 4) * 16 + (b[2] \div 16),
           (b[2] % 16) * 4 + (b[3] \div 64), b[3] % 64>>
         \o b64encode(SubSeq(b, 4, Len(b)))

(***************************************************************************)
(* Frames.  A tag frame is a bare keyword, a count frame a decimal         *)
(* integer, a data frame one base64 line.                                  *)
(***************************************************************************)
TagFrame(t) == [k |-> "tag", v |-> t]
NumFrame(n) == [k |-> "num", v |-> n]
DataFrame(line) == [k |-> "data", v |-> line]

\* The result of writing: the frames written and the exception raised, if any.
Wrote(fs) == [frames |-> fs, exc |-> "none"]
Failed(fs, cls) == [frames |-> fs, exc |-> cls]

\* one write after another: the second happens only if the first did not raise
\* (x and y name the values of a and b, so that each is evaluated once)
Then(a, b) ==
    CHOOSE w \in {IF x.exc # "none" THEN x
                  ELSE [frames |-> x.frames \o y.frames, exc |-> y.exc] :
                  x \in {a}, y \in {b}} : TRUE

\* send_data(server_file, data): base64.b64encode accepts bytes only (an
\* argument whose evaluation raised never reaches the call)
send_data(data) ==
    IF data.ty = "exc" THEN Failed(<<>>, data.v)
    ELSE IF data.ty = "bytes" THEN Wrote(<<DataFrame(b64encode(data.v))>>)
    ELSE Failed(<<>>, "TypeError")

(***************************************************************************)
(* Decoding.  A received data line is a sequence of symbols: 0..63 the     *)
(* base64 alphabet, 64 the pad '=', 65 any other ASCII character.          *)
(***************************************************************************)
RECURSIVE a2b_base64(_, _, _, _, _)
\* binascii.a2b_base64 (not strict): characters outside the alphabet are
\* skipped, a complete padding ends the data, an incomplete quad is an error
a2b_base64(line, quad_pos, leftchar, pads, out) ==
    IF line = <<>>
    THEN IF quad_pos # 0 THEN Raised("binascii.Error") ELSE PyBytes(out)
    ELSE LET ch == Head(line)
             rest == Tail(line)
         IN  IF ch = 64
             THEN IF quad_pos >= 2 /\ quad_pos + pads + 1 >= 4
                  THEN PyBytes(out)
                  ELSE a2b_base64(rest, quad_pos, leftchar,
                                  IF quad_pos >= 2 THEN pads + 1 ELSE pads, out)
             ELSE IF ch > 64
             THEN a2b_base64(rest, quad_pos, leftchar, pads, out)
             ELSE IF quad_pos = 0
             THEN a2b_base64(rest, 1, ch, 0, out)
             ELSE IF quad_pos = 1
             THEN a2b_base64(rest, 2, ch % 16, 0,
                             Append(out, leftchar * 4 + (ch \div 16)))
             ELSE IF quad_pos = 2
             THEN a2b_base64(rest, 3, ch % 4, 0,
                             Append(out, leftchar * 16 + (ch \div 4)))
             ELSE a2b_base64(rest, 0, 0, 0, Append(out, leftchar * 64 + ch))

\* base64.b64decode(line)
b64decode(line) == a2b_base64(line, 0, 0, 0, <<>>)

IsCont(b) == b >= 128 /\ b <= 191

RECURSIVE Utf8Decode(_, _)
\* b.decode('utf-8'): strict, rejecting stray continuation bytes, overlong
\* forms, surrogates and truncated sequences
Utf8Decode(b, out) ==
    IF b = <<>> THEN PyStr(out)
    ELSE LET c == b[1]
             n == Len(b)
         IN  IF c < 128
             THEN Utf8Decode(Tail(b), Append(out, c))
             ELSE IF c >= 194 /\ c <= 223 /\ n >= 2 /\ IsCont(b[2])
             THEN Utf8Decode(SubSeq(b, 3, n), Append(out, (c - 192) * 64 + (b[2] - 128)))
             ELSE IF c >= 224 /\ c <= 239 /\ n >= 3 /\ IsCont(b[2]) /\ IsCont(b[3])
                     /\ (c = 224 => b[2] >= 160) /\ (c = 237 => b[2] <= 159)
             THEN Utf8Decode(SubSeq(b, 4, n),
                             Append(out, (c - 224) * 4096 + (b[2] - 128) * 64 + (b[3] - 128)))
             ELSE IF c >= 240 /\ c <= 244 /\ n >= 4
                     /\ IsCont(b[2]) /\ IsCont(b[3]) /\ IsCont(b[4])
                     /\ (c = 240 => b[2] >= 144) /\ (c = 244 => b[2] <= 143)
             THEN Utf8Decode(SubSeq(b, 5, n),
                             Append(out, (c - 240) * 262144 + (b[2] - 128) * 4096
                                         + (b[3] - 128) * 64 + (b[4] - 128)))
             ELSE Raised("UnicodeDecodeError")

(***************************************************************************)
(* What a read of the peer's stream delivers: a line, the end of the       *)
(* stream, or bytes the ascii decoder of the stream rejects.               *)
(***************************************************************************)
Eof == [k |-> "eof", v |-> <<>>]
NonAscii == [k |-> "nonascii", v |-> <<>>]
Line(l) == [k |-> "line", v |-> l]

\* recv_data(server_file): next(server_file), b64decode, decode('utf-8')
recv_data(input) ==
    IF input.k = "eof" THEN Raised("StopIteration")
    ELSE IF input.k = "nonascii" THEN Raised("UnicodeDecodeError")
    ELSE LET blob == b64decode(input.v)
         IN  IF blob.ty = "exc" THEN blob ELSE Utf8Decode(blob.v, <<>>)

\* the ASCII character of a base64 symbol: A-Z a-z 0-9 + / and '='
B64Ascii(sym) ==
    IF sym < 26 THEN 65 + sym
    ELSE IF sym < 52 THEN 97 + (sym - 26)
    ELSE IF sym < 62 THEN 48 + (sym - 52)
    ELSE IF sym = 62 THEN 43
    ELSE IF sym = 63 THEN 47
    ELSE 61

\* base64.b64encode(b) as the bytes object Python returns
B64Text(b) == LET e == b64encode(b) IN [i \in 1..Len(e) |-> B64Ascii(e[i])]

\* x.encode('utf-8'): a method of str; bytes has no such attribute
encode(x) ==
    IF x.ty = "str" THEN PyBytes(Utf8Encode(x.v)) ELSE Raised("AttributeError")

\* str(x)
str(x) ==
    IF x.ty = "str" THEN x
    ELSE IF x.ty = "int" THEN PyStr(IntStr(x.v))
    ELSE IF x.ty = "float" THEN PyStr(FloatStr(x.v))
    ELSE PyStr(<<78, 111, 110, 101>>)

\* x or y: x when it is truthy (neither None nor empty)
Or(x, y) == IF x.ty = "None" \/ (x.ty = "str" /\ x.v = <<>>) THEN y ELSE x

(***************************************************************************)
(* The relational engine.  What cursor.execute(query) does is decided by   *)
(* the engine, so a result is drawn from a bounded set: an error with its  *)
(* message, a mutation with its affected-row count, or a row set: ncols    *)
(* columns and nrows rows, at most one cell of which (odd) is a null or a  *)
(* blob, and whose fetch after the last row may fail (fails): nrows counts *)
(* the rows the cursor yields before it raises.                            *)
(***************************************************************************)
NoOdd == <<0, 0, "none">>

NoResult ==
    [kind |-> "none", msg |-> <<>>, rowcount |-> -1, ncols |-> 0, nrows |-> 0,
     odd |-> NoOdd, fails |-> FALSE]

\* messages of sqlite3.Error: empty, ASCII, and one with a non-ASCII letter
Messages == {<<>>, <<110, 111>>, <<233>>}

ErrorResults ==
    {[NoResult EXCEPT !.kind = "error", !.msg = m] : m \in Messages}

MutationResults ==
    {[NoResult EXCEPT !.kind = "mutation", !.rowcount = c] : c \in {-1, 0, 1}}

OddCells(nrows, ncols) ==
    {NoOdd} \cup {<<r, c, t>> : r \in 1..nrows, c \in 1..ncols, t \in {"None", "bytes"}}

RowResults ==
    UNION {UNION {{[NoResult EXCEPT !.kind = "rows", !.ncols = nc, !.nrows = nr,
                                   !.odd = o, !.fails = f]
                     : o \in OddCells(nr, nc), f \in BOOLEAN}
                  : nc \in 1..MaxCols}
           : nr \in 0..MaxRows}

Results == ErrorResults \cup MutationResults \cup RowResults

\* cursor.description of a row set: per column (name, type_code); the type is
\* None for the odd columns and a name for the even ones
description(q) ==
    [c \in 1..q.ncols |->
        <<PyStr(<<98 + c>>), IF c % 2 = 1 THEN PyNone ELSE PyStr(<<73, 78, 84>>)>>]

\* the value of column c of row r: the odd cell is a null or a blob, the
\* others an integer, a text or a float by column
Cell(q, r, c) ==
    IF q.odd[1] = r /\ q.odd[2] = c
    THEN IF q.odd[3] = "None" THEN PyNone ELSE PyBytes(<<0, 255>>)
    ELSE IF c % 3 = 1 THEN PyInt(r - 2)
    ELSE IF c % 3 = 2 THEN PyStr(<<97, 233>>)
    ELSE PyFloat(r, 5)

\* row r of the result, as the cursor yields it
Row(q, r) == [c \in 1..q.ncols |-> Cell(q, r, c)]

(***************************************************************************)
(* The pieces of the handlers that write frames.                           *)
(***************************************************************************)
\* lines 26-27 and 85-86: ERROR, then the message or 'Unknown error'
send_error(msg) ==
    Then(Wrote(<<TagFrame("ERROR")>>),
         send_data(encode(Or(PyStr(msg), PyStr(TxtUnknownError)))))

RECURSIVE send_columns_untyped(_, _)
\* the type sent as it is reported, None included
send_columns_untyped(desc, c) ==
    IF c > Len(desc) THEN Wrote(<<>>)
    ELSE Then(send_data(encode(desc[c][1])),
              Then(send_data(encode(str(desc[c][2]))),
                   send_columns_untyped(desc, c + 1)))

RECURSIVE send_columns(_, _)
\* lines 36-38 and 91-93: per column its name, then its type or DYNAMIC
send_columns(desc, c) ==
    IF c > Len(desc) THEN Wrote(<<>>)
    ELSE Then(send_data(encode(desc[c][1])),
              Then(send_data(encode(str(Or(desc[c][2], PyStr(TxtDynamic))))),
                   send_columns(desc, c + 1)))

\* lines 34-38 and 89-93: METADATA, the column count, the columns
send_metadata(desc) ==
    Then(Wrote(<<TagFrame("METADATA"), NumFrame(Len(desc))>>), send_columns(desc, 1))

\* lines 57-67: the value handed to send_data for a column value
col_bytes(col) ==
    IF col.ty = "None" THEN PyStr(TxtNull)
    ELSE IF col.ty = "str" THEN encode(col)
    ELSE IF col.ty \in {"int", "float"} THEN encode(str(col))
    ELSE encode(PyBytes(B64Text(col.v)))

RECURSIVE send_values(_, _)
\* lines 56-69: one data frame per column, until one raises
send_values(row, c) ==
    IF c > Len(row) THEN Wrote(<<>>)
    ELSE Then(send_data(col_bytes(row[c])), send_values(row, c + 1))

\* lines 55-69: ROW and the row's columns
send_row(row) == Then(Wrote(<<TagFrame("ROW")>>), send_values(row, 1))

\* no checkpoint at all
page_due_never(n) == FALSE

\* a checkpoint one row late
page_due_late(n) == n = PageSize + 1

\* line 42: a checkpoint is due before the row just fetched is sent
page_due(n) == n = PageSize

\* ABORT taken for MORE
page_reply_deaf(cmd) ==
    IF cmd \in {"MORE", "ABORT"} THEN "more" ELSE "raise"

\* any reply but ABORT taken for MORE
page_reply_lenient(cmd) ==
    IF cmd = "ABORT" THEN "abort" ELSE "more"

\* lines 47-52: what the reply to PAGE means
page_reply(cmd) ==
    IF cmd = "MORE" THEN "more" ELSE IF cmd = "ABORT" THEN "abort" ELSE "raise"

(***************************************************************************)
(* What the peer can send.                                                 *)
(***************************************************************************)
Tokens == {"EXECUTE", "PREPARE", "MORE", "ABORT", "OK", "execute", ""}

\* a tag line: the token, possibly surrounded by white space
TagInputs ==
    {Eof, NonAscii} \cup {Line([tok |-> t, pad |-> p]) : t \in Tokens, p \in BOOLEAN}

\* line.strip()
strip(l) == l.tok

\* data lines: "cQ==" and its newline, an empty line, "YQ" (incomplete quad),
\* "/w==" (the byte 0xFF, not UTF-8)
DataLines == {<<28, 16, 64, 64, 65>>, <<65>>, <<24, 16>>, <<63, 48, 64, 64>>}

DataInputs == {Eof, NonAscii} \cup {Line(l) : l \in DataLines}

(***************************************************************************)
(* The state of the session.                                               *)
(***************************************************************************)
VARIABLES
    pc,            \* where main is: "hello" (line 105), "await" (line 112),
                   \* "execute" (line 22), "rows" (line 41), "page" (line 46),
                   \* "prepare" (line 80), "closed" (after line 128), or
                   \* "crashed" (an exception left main)
    got,           \* what the last read of the stream delivered: "line",
                   \* "eof" or "nonascii" ("" before the first read)
    command,       \* main's command: the last tag read at line 112, stripped
    page_command,  \* execute_query's command: the last tag read at line 46
    cursor,        \* the result the cursor holds
    fetched,       \* rows the cursor has yielded so far
    page_row,      \* rows sent since the last checkpoint (line 40)
    greeting,      \* the frames written before the command loop
    reply,         \* the frames written in answer to the current command
    previous,      \* the first tag of the answer to the command before it
    unflushed,     \* frames written since the last server_send.flush()
    sock,          \* "open" or "closed"
    db,            \* "open" or "closed"
    fault,         \* the class of the exception that ended the session
    cmds,          \* commands dispatched so far
    at,            \* the loop-back of one data frame: "idle", "send", "recv", "done"
    data,          \* the bytes handed to send_data
    line,          \* the line send_data printed, as next(server_file) returns it
    text           \* what recv_data returned for that line

session ==
    <<pc, got, command, page_command, cursor, fetched, page_row, greeting,
      reply, previous, unflushed, sock, db, fault, cmds>>

loopback == <<at, data, line, text>>

vars == <<session, loopback>>

\* lines 97-103: the database is open and the socket connected
Init ==
    /\ pc = "hello"
    /\ got = ""
    /\ command = ""
    /\ page_command = ""
    /\ cursor = NoResult
    /\ fetched = 0
    /\ page_row = 0
    /\ greeting = <<>>
    /\ reply = <<>>
    /\ previous = ""
    /\ unflushed = 0
    /\ sock = "open"
    /\ db = "open"
    /\ fault = "none"
    /\ cmds = 0
    /\ at = "idle"
    /\ data = <<>>
    /\ line = <<>>
    /\ text = PyNone

\* lines 123-128: the exception is caught, the loop left, both resources closed
\* (also the two break statements, with no exception)
Close(cls) ==
    /\ pc' = "closed"
    /\ sock' = "closed"
    /\ db' = "closed"
    /\ fault' = cls

\* an exception main does not catch: the process ends at once
Crash(cls) ==
    /\ pc' = "crashed"
    /\ fault' = cls
    /\ UNCHANGED <<sock, db>>

\* the handler returns and the next command is read without a flush
Return_unflushed ==
    /\ pc' = "await"
    /\ UNCHANGED <<unflushed, sock, db, fault>>

\* the handler returns; line 109 flushes and line 112 blocks
Return ==
    /\ pc' = "await"
    /\ unflushed' = 0
    /\ UNCHANGED <<sock, db, fault>>

\* the greeting without the engine's name
Hello_nameless ==
    /\ pc = "hello"
    /\ UNCHANGED loopback
    /\ greeting' = <<TagFrame("HELLO")>>
    /\ Return
    /\ UNCHANGED <<got, command, page_command, cursor, fetched, page_row, reply,
                   previous, cmds>>

\* lines 105-109: HELLO and the engine's name, then the loop's first flush
Hello ==
    /\ pc = "hello"
    /\ UNCHANGED loopback
    /\ greeting' = Then(Wrote(<<TagFrame("HELLO")>>),
                        send_data(PyBytes(Utf8Encode(TxtSqlite)))).frames
    /\ Return
    /\ UNCHANGED <<got, command, page_command, cursor, fetched, page_row, reply,
                   previous, cmds>>

\* the tag an answer starts with
first_tag(frames) == IF frames = <<>> THEN "" ELSE frames[1].v

\* a dispatcher that answers an unknown command with ERROR and reads on
Dispatch_tolerant(input) ==
    /\ pc = "await"
    /\ UNCHANGED loopback
    /\ got' = input.k
    /\ UNCHANGED greeting
    /\ IF input.k = "eof"
       THEN /\ Close("none")
            /\ UNCHANGED <<command, page_command, cursor, fetched, page_row, reply,
                           previous, unflushed, cmds>>
       ELSE IF input.k = "nonascii"
       THEN /\ Crash("UnicodeDecodeError")
            /\ UNCHANGED <<command, page_command, cursor, fetched, page_row, reply,
                           previous, unflushed, cmds>>
       ELSE /\ command' = strip(input.v)
            /\ IF command' \in {"EXECUTE", "PREPARE"}
               THEN /\ cmds < MaxCmds
                    /\ cmds' = cmds + 1
                    /\ pc' = IF command' = "EXECUTE" THEN "execute" ELSE "prepare"
                    /\ previous' = first_tag(reply)
                    /\ reply' = <<>>
                    /\ cursor' = NoResult
                    /\ page_command' = ""
                    /\ fetched' = 0
                    /\ page_row' = 0
                    /\ unflushed' = 0
                    /\ UNCHANGED <<sock, db, fault>>
               ELSE /\ reply' = send_error(TxtUnknownError).frames
                    /\ Return
                    /\ UNCHANGED <<page_command, cursor, fetched, page_row,
                                   previous, cmds>>

\* lines 112-122 (and 21, 79): read a command and route it.  A new command
\* starts a new answer; the result and the locals of the command before it
\* are dropped here, since the handlers set them before they read them.
Dispatch(input) ==
    /\ pc = "await"
    /\ UNCHANGED loopback
    /\ got' = input.k
    /\ UNCHANGED greeting
    /\ IF input.k = "eof"
       THEN /\ Close("none")
            /\ UNCHANGED <<command, page_command, cursor, fetched, page_row, reply,
                           previous, unflushed, cmds>>
       ELSE IF input.k = "nonascii"
       THEN /\ Crash("UnicodeDecodeError")
            /\ UNCHANGED <<command, page_command, cursor, fetched, page_row, reply,
                           previous, unflushed, cmds>>
       ELSE /\ command' = strip(input.v)
            /\ IF command' \in {"EXECUTE", "PREPARE"}
               THEN /\ cmds < MaxCmds
                    /\ cmds' = cmds + 1
                    /\ pc' = IF command' = "EXECUTE" THEN "execute" ELSE "prepare"
                    /\ previous' = first_tag(reply)
                    /\ reply' = <<>>
                    /\ cursor' = NoResult
                    /\ page_command' = ""
                    /\ fetched' = 0
                    /\ page_row' = 0
                    /\ unflushed' = 0
                    /\ UNCHANGED <<sock, db, fault>>
               ELSE /\ Close("none")
                    /\ UNCHANGED <<page_command, cursor, fetched, page_row, reply,
                                   previous, unflushed, cmds>>

\* lines 54-69: count the row, send it; an exception ends the session
Emit(r, n) ==
    \E row \in {Row(cursor, r)} : \E w \in {send_row(row)} :
        /\ page_row' = n + 1
        /\ reply' = reply \o w.frames
        /\ unflushed' = unflushed + Len(w.frames)
        /\ IF w.exc = "none"
           THEN pc' = "rows" /\ UNCHANGED <<sock, db, fault>>
           ELSE Close(w.exc)

\* a handler that neither writes END nor returns
Finish_hang == UNCHANGED <<reply, pc, unflushed, sock, db, fault>>

\* line 71 and the return to the loop
Finish ==
    /\ reply' = reply \o <<TagFrame("END")>>
    /\ Return

\* the error answered without its message
execute_answer_bare(q) ==
    IF q.kind = "error" THEN Wrote(<<TagFrame("ERROR")>>)
    ELSE IF q.kind = "rows" THEN send_metadata(description(q))
    ELSE Wrote(<<TagFrame("AFFECTED"), NumFrame(q.rowcount)>>)

\* lines 23-38 and 73-75: the answer to an executed query, before its rows
execute_answer(q) ==
    IF q.kind = "error" THEN send_error(q.msg)
    ELSE IF q.kind = "rows" THEN send_metadata(description(q))
    ELSE Wrote(<<TagFrame("AFFECTED"), NumFrame(q.rowcount)>>)

\* lines 22-40 and 73-75: read the SQL text, run it (the engine decides on
\* the result q), answer
Execute(input) ==
    /\ pc = "execute"
    /\ UNCHANGED loopback
    /\ got' = input.k
    /\ UNCHANGED <<command, page_command, greeting, previous, cmds>>
    /\ LET query == recv_data(input)
       IN  IF query.ty = "exc"
           THEN /\ Close(query.v)
                /\ UNCHANGED <<cursor, fetched, page_row, reply, unflushed>>
           ELSE \E q \in Results :
                /\ cursor' = q
                /\ reply' = execute_answer(q).frames
                /\ UNCHANGED <<fetched, page_row>>
                /\ IF q.kind = "rows"
                   THEN /\ unflushed' = Len(reply')
                        /\ pc' = "rows"
                        /\ UNCHANGED <<sock, db, fault>>
                   ELSE Return

\* lines 41-45 and 54-71: fetch the next row; send it, or PAGE first when a
\* checkpoint is due; END when the cursor is exhausted.  An error of the
\* engine while fetching is raised outside the try of line 23.
Fetch ==
    /\ pc = "rows"
    /\ UNCHANGED loopback
    /\ UNCHANGED <<got, command, page_command, cursor, greeting, previous, cmds>>
    /\ IF fetched < cursor.nrows
       THEN /\ fetched' = fetched + 1
            /\ IF page_due(page_row)
               THEN /\ reply' = reply \o <<TagFrame("PAGE")>>
                    /\ unflushed' = 0
                    /\ pc' = "page"
                    /\ UNCHANGED <<page_row, sock, db, fault>>
               ELSE Emit(fetched + 1, page_row)
       ELSE IF cursor.fails
       THEN /\ Close("sqlite3.OperationalError")
            /\ UNCHANGED <<fetched, page_row, reply, unflushed>>
       ELSE Finish /\ UNCHANGED <<fetched, page_row>>

\* MORE goes on with the next fetch: the row fetched before PAGE is dropped
Page_drops(input) ==
    /\ pc = "page"
    /\ UNCHANGED loopback
    /\ got' = input.k
    /\ UNCHANGED <<command, cursor, fetched, greeting, previous, cmds>>
    /\ IF input.k = "eof"
       THEN /\ Close("StopIteration")
            /\ UNCHANGED <<page_command, page_row, reply, unflushed>>
       ELSE IF input.k = "nonascii"
       THEN /\ Close("UnicodeDecodeError")
            /\ UNCHANGED <<page_command, page_row, reply, unflushed>>
       ELSE /\ page_command' = strip(input.v)
            /\ LET verdict == page_reply(page_command')
               IN  IF verdict = "more"
                   THEN /\ page_row' = 0
                        /\ pc' = "rows"
                        /\ UNCHANGED <<reply, unflushed, sock, db, fault>>
                   ELSE IF verdict = "abort" THEN Finish /\ UNCHANGED page_row
                   ELSE /\ Close("ValueError")
                        /\ UNCHANGED <<page_row, reply, unflushed>>

\* lines 46-52, then 54-69 or 71: the peer's answer to PAGE
Page(input) ==
    /\ pc = "page"
    /\ UNCHANGED loopback
    /\ got' = input.k
    /\ UNCHANGED <<command, cursor, fetched, greeting, previous, cmds>>
    /\ IF input.k = "eof"
       THEN /\ Close("StopIteration")
            /\ UNCHANGED <<page_command, page_row, reply, unflushed>>
       ELSE IF input.k = "nonascii"
       THEN /\ Close("UnicodeDecodeError")
            /\ UNCHANGED <<page_command, page_row, reply, unflushed>>
       ELSE /\ page_command' = strip(input.v)
            /\ LET verdict == page_reply(page_command')
               IN  IF verdict = "more" THEN Emit(fetched, 0)
                   ELSE IF verdict = "abort" THEN Finish /\ UNCHANGED page_row
                   ELSE /\ Close("ValueError")
                        /\ UNCHANGED <<page_row, reply, unflushed>>

\* line 81: the result of the zero-row probe of a query
probe(q) ==
    IF q.kind = "rows" THEN [q EXCEPT !.nrows = 0, !.odd = NoOdd, !.fails = FALSE] ELSE q

\* the metadata closed with END, as execute_query closes its rows
prepare_answer_end(q) ==
    IF q.kind = "error" THEN send_error(q.msg)
    ELSE Then(send_metadata(description(q)), Wrote(<<TagFrame("END")>>))

\* lines 82-93: the answer to a probed query
prepare_answer(q) ==
    IF q.kind = "error" THEN send_error(q.msg) ELSE send_metadata(description(q))

\* lines 80-93: read the SQL text, run its probe (the engine decides on the
\* result q of the query), answer with the columns
Prepare(input) ==
    /\ pc = "prepare"
    /\ UNCHANGED loopback
    /\ got' = input.k
    /\ UNCHANGED <<command, page_command, fetched, page_row, greeting, previous, cmds>>
    /\ LET metadata_query == recv_data(input)
       IN  IF metadata_query.ty = "exc"
           THEN /\ Close(metadata_query.v)
                /\ UNCHANGED <<cursor, reply, unflushed>>
           ELSE \E q \in ErrorResults \cup RowResults :
                /\ cursor' = probe(q)
                /\ reply' = prepare_answer(cursor').frames
                /\ Return

\* the steps of main that read from the peer
Serve ==
    \/ pc = "await" /\ \E input \in TagInputs : Dispatch(input)
    \/ pc = "execute" /\ \E input \in DataInputs : Execute(input)
    \/ pc = "page" /\ \E input \in TagInputs : Page(input)
    \/ pc = "prepare" /\ \E input \in DataInputs : Prepare(input)

Next ==
    \/ Hello
    \/ Serve
    \/ Fetch

Spec == Init /\ [][Next]_vars

\* lines 22 and 80: the peer delivers the line a handler waits for
PeerSendsSql ==
    \/ pc = "execute" /\ \E input \in DataInputs : Execute(input)
    \/ pc = "prepare" /\ \E input \in DataInputs : Prepare(input)

\* line 46: the peer answers a PAGE, or closes the stream
PeerAnswersPage == pc = "page" /\ \E input \in TagInputs : Page(input)

\* main is one sequential process: a statement that can run does run (weak
\* fairness of Hello and Fetch); a peer that delivers the SQL frame and
\* answers every PAGE is the weak fairness of the two reads inside handlers.
\* Nothing is assumed of the read of the next command.
FairSpec ==
    /\ Spec
    /\ WF_vars(Hello)
    /\ WF_vars(Fetch)
    /\ WF_vars(PeerSendsSql)
    /\ WF_vars(PeerAnswersPage)

(***************************************************************************)
(* The loop-back of a data frame: send_data prints the line for a byte     *)
(* sequence and recv_data reads that line back.  The bytes are drawn from  *)
(* a sample that holds an ASCII letter, NUL, the two bytes of U+00E9 and   *)
(* 0xFF, which no UTF-8 text contains.                                     *)
(***************************************************************************)
SampleBytes == {0, 97, 169, 195, 255}

Payloads == UNION {[1..n -> SampleBytes] : n \in 0..MaxLen}

\* a session that has not started, and a byte sequence to send
LoopInit ==
    /\ pc = "hello"
    /\ got = ""
    /\ command = ""
    /\ page_command = ""
    /\ cursor = NoResult
    /\ fetched = 0
    /\ page_row = 0
    /\ greeting = <<>>
    /\ reply = <<>>
    /\ previous = ""
    /\ unflushed = 0
    /\ sock = "open"
    /\ db = "open"
    /\ fault = "none"
    /\ cmds = 0
    /\ at = "send"
    /\ data \in Payloads
    /\ line = <<>>
    /\ text = PyNone

\* lines 12-13: print(b64encode(data)) writes the base64 text and a newline
SendData ==
    /\ at = "send"
    /\ line' = send_data(PyBytes(data)).frames[1].v \o <<65>>
    /\ at' = "recv"
    /\ UNCHANGED <<data, text, session>>

\* lines 15-17: the line is read back, base64-decoded, decoded as UTF-8
RecvData ==
    /\ at = "recv"
    /\ text' = recv_data(Line(line))
    /\ at' = "done"
    /\ UNCHANGED <<data, line, session>>

LoopNext ==
    \/ SendData
    \/ RecvData

LoopSpec == LoopInit /\ [][LoopNext]_vars

(***************************************************************************)
(* Vocabulary of the properties.                                           *)
(***************************************************************************)
IsTag(f, t) == f.k = "tag" /\ f.v = t

Count(frames, t) == Cardinality({i \in DOMAIN frames : IsTag(frames[i], t)})

LastFrame(frames) == frames[Len(frames)]

IsPrefix(a, b) == Len(a) <= Len(b) /\ SubSeq(b, 1, Len(a)) = a

\* ERROR and one data frame
ErrorShape(frames) ==
    Len(frames) = 2 /\ IsTag(frames[1], "ERROR") /\ frames[2].k = "data"

\* AFFECTED and a count
AffectedShape(frames) ==
    Len(frames) = 2 /\ IsTag(frames[1], "AFFECTED") /\ frames[2].k = "num"

\* METADATA, the count n, and 2n data frames
MetadataShape(frames, n) ==
    /\ Len(frames) = 2 + 2 * n
    /\ IsTag(frames[1], "METADATA")
    /\ frames[2].k = "num" /\ frames[2].v = n
    /\ \A i \in 3..Len(frames) : frames[i].k = "data"

\* the ROW, PAGE and END tags of an answer, in order
Skeleton(frames) ==
    SelectSeq(frames, LAMBDA f : f.k = "tag" /\ f.v \in {"ROW", "PAGE", "END"})

RECURSIVE PagedRows(_, _)
\* rows r..n of a stream whose peer always continues: PAGE before every row
\* that follows a multiple of three rows
PagedRows(r, n) ==
    IF r > n THEN <<>>
    ELSE (IF r > 1 /\ (r - 1) % 3 = 0 THEN <<TagFrame("PAGE")>> ELSE <<>>)
         \o <<TagFrame("ROW")>> \o PagedRows(r + 1, n)

\* the whole stream of an n-row result whose peer always continues
Paged(n) == PagedRows(1, n) \o <<TagFrame("END")>>

\* the exceptions that the peer's input causes
PeerFaults == {"ValueError", "StopIteration", "UnicodeDecodeError", "binascii.Error"}

\* the EXECUTE handler is over: it returned, or raised on its own account
ExecuteOver ==
    /\ command = "EXECUTE"
    /\ cursor.kind # "none"
    /\ pc = "await" \/ (pc = "closed" /\ fault \notin PeerFaults)

\* the exception of the engine when a fetch fails
EngineFault == "sqlite3.OperationalError"

(***************************************************************************)
(* C1.  Whenever the engine rejects the SQL text of an EXECUTE, the answer *)
(* is exactly ERROR and one data frame, main is back at its read of the    *)
(* next command with the socket and the database open, and an EXECUTE or   *)
(* PREPARE read after such an answer starts its handler.                   *)
(***************************************************************************)
C1_RejectedSqlAnswered ==
    [][/\ (pc = "execute" /\ cursor'.kind = "error")
            => /\ pc' = "await"
               /\ sock' = "open" /\ db' = "open" /\ fault' = "none"
               /\ ErrorShape(reply')
       /\ (pc = "await" /\ first_tag(reply) = "ERROR" /\ got' = "line"
              /\ command' \in {"EXECUTE", "PREPARE"})
            => pc' = (IF command' = "EXECUTE" THEN "execute" ELSE "prepare")]_vars

\* a command that followed a rejected EXECUTE has been answered
C1_Witness ==
    /\ pc = "await"
    /\ previous = "ERROR"
    /\ command = "EXECUTE"
    /\ first_tag(reply) = "METADATA"
    /\ sock = "open" /\ db = "open"

(***************************************************************************)
(* C2.  When the EXECUTE of a row-producing query is over and the peer has *)
(* not replied ABORT, the answer holds as many ROW frames as the result    *)
(* has rows.                                                               *)
(***************************************************************************)
C2_RowFramesEqualRows ==
    (ExecuteOver /\ cursor.kind = "rows" /\ page_command # "ABORT")
        => Count(reply, "ROW") = cursor.nrows

(***************************************************************************)
(* C3.  With a peer that never replies ABORT, the ROW, PAGE and END tags   *)
(* of an EXECUTE's answer are at every moment a prefix of the stream that  *)
(* has PAGE exactly before each row that follows a multiple of three rows, *)
(* and are that whole stream once the handler has returned: no PAGE for    *)
(* three rows or fewer, PAGE after rows 3 and 6 for seven rows.            *)
(***************************************************************************)
C3_PageEveryThreeRows ==
    (command = "EXECUTE" /\ cursor.kind = "rows" /\ page_command # "ABORT")
        => /\ IsPrefix(Skeleton(reply), Paged(cursor.nrows))
           /\ pc = "await" => Skeleton(reply) = Paged(cursor.nrows)
           /\ pc = "page" => IsTag(LastFrame(reply), "PAGE")

\* a seven-row result streamed to its END with two checkpoints
C3_Witness ==
    /\ pc = "await"
    /\ command = "EXECUTE"
    /\ cursor.nrows = 7
    /\ page_command = "MORE"
    /\ Count(reply, "PAGE") = 2
    /\ Count(reply, "ROW") = 7

(***************************************************************************)
(* C4.  When the peer replies ABORT to a PAGE, the handler writes END and  *)
(* nothing else and returns to the read of the next command; the answer    *)
(* then holds one END, three ROW frames per PAGE (so three for a seven-row *)
(* result aborted at its first checkpoint), and does not grow any more.    *)
(***************************************************************************)
C4_AbortEndsStream ==
    [][/\ (pc = "page" /\ got' = "line" /\ page_command' = "ABORT")
            => /\ reply' = Append(reply, TagFrame("END"))
               /\ pc' = "await"
               /\ sock' = "open" /\ db' = "open"
               /\ Count(reply', "END") = 1
               /\ Count(reply', "ROW") = 3 * Count(reply', "PAGE")
               /\ (cursor.nrows = 7 /\ Count(reply', "PAGE") = 1)
                    => Count(reply', "ROW") = 3
       /\ (pc = "await" /\ page_command = "ABORT" /\ reply' # reply)
            => reply' = <<>>]_vars

\* a seven-row result aborted at the first checkpoint
C4_Witness ==
    /\ pc = "await"
    /\ page_command = "ABORT"
    /\ cursor.nrows = 7
    /\ Count(reply, "ROW") = 3
    /\ IsTag(LastFrame(reply), "END")

(***************************************************************************)
(* C5.  When the read of the reply to a PAGE delivers anything but MORE or *)
(* ABORT (another token, the end of the stream, undecodable bytes), the    *)
(* session is closed: nothing more is written, the socket and the database *)
(* are closed, and no step is taken from the closed state.                 *)
(***************************************************************************)
C5_BadPageReplyCloses ==
    [][/\ (pc = "page" /\ (got' # "line" \/ page_command' \notin {"MORE", "ABORT"}))
            => /\ pc' = "closed"
               /\ reply' = reply
               /\ sock' = "closed" /\ db' = "closed"
       /\ pc # "closed"]_vars

\* a command token sent in reply to PAGE closed the session
C5_Witness ==
    /\ pc = "closed"
    /\ page_command = "EXECUTE"
    /\ fault = "ValueError"
    /\ IsTag(LastFrame(reply), "PAGE")
    /\ db = "closed"

(***************************************************************************)
(* C6.  When an EXECUTE is over (the engine not having failed in a        *)
(* fetch), its answer is ERROR and a message, AFFECTED and a count, or     *)
(* begins with METADATA and ends with its only END frame, whatever values  *)
(* the rows contain.                                                       *)
(***************************************************************************)
C6_ExecuteReplyShapes ==
    (ExecuteOver /\ fault # EngineFault)
        => \/ ErrorShape(reply)
           \/ AffectedShape(reply)
           \/ /\ first_tag(reply) = "METADATA"
              /\ IsTag(LastFrame(reply), "END")
              /\ Count(reply, "END") = 1

(***************************************************************************)
(* C7.  Once the row that holds a null has been sent, the answer holds a   *)
(* data frame whose decoded payload is the text <null>, and the session    *)
(* has not been ended by the sending of it.                                *)
(***************************************************************************)
C7_NullSentAsText ==
    (command = "EXECUTE" /\ cursor.kind = "rows" /\ cursor.odd[3] = "None"
        /\ Count(reply, "ROW") >= cursor.odd[1])
        => /\ fault # "TypeError"
           /\ \E i \in DOMAIN reply :
                /\ reply[i].k = "data"
                /\ LET payload == recv_data(Line(reply[i].v))
                   IN  payload.ty = "str" /\ payload.v = TxtNull

(***************************************************************************)
(* C8.  Once the row that holds a blob has been sent, the answer holds a   *)
(* data frame whose decoded payload is the base64 text of the blob's       *)
(* bytes, and the session has not been ended by the sending of it.         *)
(***************************************************************************)
C8_BlobSentAsBase64 ==
    (command = "EXECUTE" /\ cursor.kind = "rows" /\ cursor.odd[3] = "bytes"
        /\ Count(reply, "ROW") >= cursor.odd[1])
        => /\ fault # "AttributeError"
           /\ \E i \in DOMAIN reply :
                /\ reply[i].k = "data"
                /\ LET payload == b64decode(reply[i].v)
                   IN  /\ payload.ty = "bytes"
                       /\ payload.v = B64Text(Cell(cursor, cursor.odd[1], cursor.odd[2]).v)

(***************************************************************************)
(* C9.  The PREPARE handler either returns with an answer that is ERROR    *)
(* and one data frame, or METADATA, the column count and two data frames   *)
(* per column, or (the SQL frame being unreadable) closes the session with *)
(* no answer; no answer to a PREPARE ever holds ROW, PAGE, END or          *)
(* AFFECTED.                                                               *)
(***************************************************************************)
C9_PrepareSendsNoRows ==
    /\ [][pc = "prepare"
            => \/ /\ pc' = "await"
                  /\ \/ ErrorShape(reply')
                     \/ MetadataShape(reply', cursor'.ncols)
               \/ /\ pc' = "closed"
                  /\ reply' = <<>>
                  /\ fault' \in PeerFaults]_vars
    /\ [](command = "PREPARE"
            => \A i \in DOMAIN reply :
                 ~(reply[i].k = "tag" /\ reply[i].v \in {"ROW", "PAGE", "END", "AFFECTED"}))

\* a PREPARE answered with the metadata of two columns
C9_Witness ==
    /\ pc = "await"
    /\ command = "PREPARE"
    /\ MetadataShape(reply, 2)
    /\ cursor.kind = "rows"

(***************************************************************************)
(* C10.  No failure that the engine reports during an EXECUTE ends the     *)
(* session: a rejected SQL text is answered with ERROR and a message, and  *)
(* no session is closed by an exception of the engine.                     *)
(***************************************************************************)
C10_EngineFailureNeverFatal ==
    /\ fault # EngineFault
    /\ (pc = "await" /\ command = "EXECUTE" /\ cursor.kind = "error") => ErrorShape(reply)

(***************************************************************************)
(* C11.  However the session ends (the peer closes, a handler raises, a    *)
(* PAGE is badly answered, a command is not recognised, the read of a      *)
(* command fails), the database has been closed: no state in which main    *)
(* has ended still holds the database open.                                *)
(***************************************************************************)
C11_DatabaseAlwaysClosed ==
    pc \in {"closed", "crashed"} => db = "closed"

(***************************************************************************)
(* C12.  Before its first step main has written and read nothing; from     *)
(* then on the frames written before the command loop are exactly HELLO    *)
(* and one data frame whose payload decodes to sqlite.  They are written   *)
(* in one step that reads nothing and leads straight to the read of the    *)
(* first command, they never change afterwards, and no answer to a command *)
(* holds HELLO.                                                            *)
(***************************************************************************)
C12_GreetingFirstOnce ==
    /\ [](pc = "hello" => greeting = <<>> /\ reply = <<>> /\ got = "" /\ cmds = 0)
    /\ [](pc # "hello"
            => /\ Len(greeting) = 2
               /\ IsTag(greeting[1], "HELLO")
               /\ greeting[2].k = "data"
               /\ recv_data(Line(greeting[2].v)) = PyStr(TxtSqlite))
    /\ [][/\ greeting' # greeting => (pc = "hello" /\ greeting = <<>>)
          /\ pc = "hello" => (pc' = "await" /\ got' = got /\ unflushed' = 0)]_vars
    /\ [](\A i \in DOMAIN reply : ~IsTag(reply[i], "HELLO"))

\* the first command has been read after the greeting
C12_Witness ==
    /\ pc = "execute"
    /\ cmds = 1
    /\ Len(greeting) = 2
    /\ reply = <<>>

(***************************************************************************)
(* C13.  A line read as a command starts the EXECUTE handler when its      *)
(* token is EXECUTE, the PREPARE handler when it is PREPARE, and no        *)
(* handler is started in any other way.  Any other token (an empty line,   *)
(* a token in lower case, a token of another exchange) closes the session  *)
(* with no exception, without a frame being written, and once closed the   *)
(* session reads nothing more.                                             *)
(***************************************************************************)
C13_OnlyTwoCommands ==
    [][/\ (pc = "await" /\ got' = "line")
            => IF command' = "EXECUTE" THEN pc' = "execute"
               ELSE IF command' = "PREPARE" THEN pc' = "prepare"
               ELSE /\ pc' = "closed"
                    /\ fault' = "none"
                    /\ reply' = reply /\ greeting' = greeting
                    /\ sock' = "closed" /\ db' = "closed"
       /\ (pc' \in {"execute", "prepare"} /\ pc' # pc)
            => /\ pc = "await" /\ got' = "line"
               /\ command' = (IF pc' = "execute" THEN "EXECUTE" ELSE "PREPARE")
       /\ pc = "closed" => (got' = got /\ command' = command /\ reply' = reply)]_vars

\* a token in lower case, read after one answered command, closed the session
C13_Witness ==
    /\ pc = "closed"
    /\ got = "line"
    /\ command = "execute"
    /\ fault = "none"
    /\ cmds = 1
    /\ reply # <<>>

\* the text a data frame carries
Payload(f) == recv_data(Line(f.v))

\* the type name announced for a column descriptor
TypeName(col) == IF col[2] = PyNone THEN PyStr(TxtDynamic) ELSE col[2]

(***************************************************************************)
(* C14.  An answer holds METADATA as its first frame or not at all, and    *)
(* the answer to a query that yields columns always starts with it, for    *)
(* EXECUTE and for PREPARE alike.  METADATA is followed by the count N of  *)
(* the cursor's columns and by 2N data frames: for each column in order    *)
(* its name, then its type name, DYNAMIC when the engine reports none;     *)
(* what follows these frames, if anything, is a tag.  The frames depend on *)
(* the column descriptors only, not on the command.                        *)
(***************************************************************************)
C14_MetadataFrames ==
    LET desc == description(cursor)
        n == Len(desc)
    IN  /\ \A i \in DOMAIN reply : IsTag(reply[i], "METADATA") => i = 1
        /\ (cursor.kind = "rows" /\ reply # <<>>) => first_tag(reply) = "METADATA"
        /\ first_tag(reply) = "METADATA"
             => /\ cursor.kind = "rows"
                /\ Len(reply) >= 2 + 2 * n
                /\ reply[2] = NumFrame(n)
                /\ \A c \in 1..n :
                     /\ reply[2 * c + 1].k = "data"
                     /\ Payload(reply[2 * c + 1]) = desc[c][1]
                     /\ reply[2 * c + 2].k = "data"
                     /\ Payload(reply[2 * c + 2]) = TypeName(desc[c])
                /\ Len(reply) > 2 + 2 * n => reply[2 * n + 3].k = "tag"

\* two columns announced by an EXECUTE that followed another set of columns
C14_Witness ==
    /\ pc = "await"
    /\ command = "EXECUTE"
    /\ cursor.ncols = 2
    /\ previous = "METADATA"
    /\ MetadataShape(SubSeq(reply, 1, 6), 2)
    /\ Payload(reply[4]) = PyStr(TxtDynamic)
    /\ Count(reply, "ROW") = 2

\* the code points whose UTF-8 bytes all lie in SampleBytes, and the texts
\* made of them
SampleChars == {0, 97, 233}

Texts == UNION {[1..n -> SampleChars] : n \in 0..MaxLen}

(***************************************************************************)
(* C15, as the specification states it.  For every byte sequence, valid    *)
(* UTF-8 or not, reading back the line that send_data printed for it       *)
(* yields the same bytes.                                                  *)
(***************************************************************************)
C15_RoundTripAnyBytes ==
    at = "done"
        => /\ text.ty \in {"bytes", "str"}
           /\ (IF text.ty = "bytes" THEN text.v ELSE Utf8Encode(text.v)) = data

(***************************************************************************)
(* C15, amended.  For every byte sequence the base64 decoding of the line  *)
(* that send_data printed for it yields the same bytes; recv_data, which   *)
(* then decodes them as UTF-8, returns the text whose UTF-8 bytes they are *)
(* when there is one, and raises UnicodeDecodeError when there is none.    *)
(***************************************************************************)
C15_RoundTripUtf8 ==
    at = "done"
        => /\ b64decode(line) = PyBytes(data)
           /\ \A s \in Texts : Utf8Encode(s) = data => text = PyStr(s)
           /\ (\A s \in Texts : Utf8Encode(s) # data)
                => text = Raised("UnicodeDecodeError")

\* the bytes of a two-byte character and a NUL came back as a text
C15_Witness ==
    /\ at = "done"
    /\ data = <<195, 169, 0>>
    /\ text = PyStr(<<233, 0>>)

\* main is blocked in a read from the peer
Reading == pc \in {"await", "execute", "prepare", "page"}

(***************************************************************************)
(* C16.  Whenever main is blocked in a read from the peer (of a command,   *)
(* of the SQL text of an EXECUTE or a PREPARE, of the reply to a PAGE), no *)
(* frame it has written is still unflushed.                                *)
(***************************************************************************)
C16_FlushedBeforeRead ==
    Reading => unflushed = 0

\* the reply to the second PAGE is awaited, after a first answer with rows
C16_Witness ==
    /\ pc = "page"
    /\ unflushed = 0
    /\ Count(reply, "ROW") = 6
    /\ IsTag(LastFrame(reply), "PAGE")
    /\ previous = "METADATA"

(***************************************************************************)
(* C17.  With a peer that delivers the SQL frame and answers every PAGE    *)
(* (or closes the stream), a handler that has been dispatched always       *)
(* finishes: from the read of the SQL text, from the row loop and from a   *)
(* PAGE, main eventually is back at the read of the next command or has    *)
(* closed the session.  Main never stays forever in a state that is not a  *)
(* read from the peer: it leaves the greeting and the row loop again and   *)
(* again.                                                                  *)
(***************************************************************************)
C17_HandlersTerminate ==
    /\ (pc \in {"execute", "prepare", "rows", "page"}) ~> (pc \in {"await", "closed"})
    /\ []<>(pc \notin {"hello", "rows"})

\* a seven-row stream ended at its second checkpoint, the handler returned
C17_Witness ==
    /\ pc = "await"
    /\ command = "EXECUTE"
    /\ cursor.nrows = 7
    /\ fetched = 7
    /\ page_command = "ABORT"
    /\ Count(reply, "PAGE") = 2

\* the place of the j-th ROW tag of an answer
RowPos(frames, j) ==
    CHOOSE p \in DOMAIN frames :
        /\ IsTag(frames[p], "ROW")
        /\ Cardinality({i \in 1..p : IsTag(frames[i], "ROW")}) = j

\* the number of data frames that follow place p before the next other frame
RECURSIVE DataRun(_, _)
DataRun(frames, p) ==
    IF p + 1 <= Len(frames) /\ frames[p + 1].k = "data"
    THEN 1 + DataRun(frames, p + 1)
    ELSE 0

\* the bytes that stand for a value of the engine: text as UTF-8, a number
\* in decimal
ValueBytes(val) ==
    IF val.ty = "str" THEN Utf8Encode(val.v)
    ELSE IF val.ty = "int" THEN IntStr(val.v)
    ELSE FloatStr(val.v)

\* the row the cursor yielded last is held back: PAGE has been sent for it
\* and MORE has not been read
Held == IsTag(LastFrame(reply), "PAGE") \/ page_command = "ABORT"

(***************************************************************************)
(* C18.  In the answer to a query that yields rows, the j-th ROW frame     *)
(* carries row j of the engine: each data frame that follows it holds the  *)
(* bytes of that row's value in the same column (the first column tells    *)
(* the rows apart).  The ROW frames are as many as the rows fetched, less  *)
(* the one held back while a PAGE is unanswered or after ABORT: the held   *)
(* row is sent as the next ROW after MORE and is never sent after ABORT.   *)
(***************************************************************************)
C18_RowsInOrder ==
    (cursor.kind = "rows" /\ reply # <<>>)
        => LET sent == Count(reply, "ROW")
           IN  /\ sent <= cursor.nrows
               /\ sent = (IF Held THEN fetched - 1 ELSE fetched)
               /\ \A j \in 1..sent :
                    LET p == RowPos(reply, j)
                    IN  \A c \in 1..DataRun(reply, p) :
                          /\ c <= cursor.ncols
                          /\ b64decode(reply[p + c].v)
                               = PyBytes(ValueBytes(Cell(cursor, j, c)))

\* rows four and five have been sent after MORE; row four is not doubled
C18_Witness ==
    /\ pc = "rows"
    /\ page_command = "MORE"
    /\ fetched = 5
    /\ Count(reply, "ROW") = 5
    /\ Count(reply, "PAGE") = 1
    /\ b64decode(reply[RowPos(reply, 4) + 1].v) = PyBytes(IntStr(2))
    /\ b64decode(reply[RowPos(reply, 5) + 1].v) = PyBytes(IntStr(3))

(***************************************************************************)
(* C19.  In the answer to a query that yields rows, every ROW frame is     *)
(* followed by as many data frames as the count after METADATA announces,  *)
(* and what comes after them, if anything, is a tag: no row is ever left   *)
(* partially sent, not even when the session closes.                       *)
(***************************************************************************)
C19_RowsComplete ==
    (cursor.kind = "rows" /\ reply # <<>>)
        => \A p \in DOMAIN reply :
             IsTag(reply[p], "ROW")
                => /\ DataRun(reply, p) = reply[2].v
                   /\ p + reply[2].v < Len(reply) => reply[p + reply[2].v + 1].k = "tag"

\* main is in the row loop of an EXECUTE
Streaming == pc \in {"rows", "page"}

(***************************************************************************)
(* C20.  The page counter is always one of 0, 1, 2, 3.  While rows are     *)
(* streamed it only grows by one with each row sent, except on a MORE      *)
(* reply, the only step that takes it back (to 0, and to 1 with the row    *)
(* sent in the same step); a PAGE is awaited only with the counter at 3.   *)
(* No answer holds four ROW frames in a row without a PAGE between them.   *)
(***************************************************************************)
C20_PageCounterBounded ==
    /\ [](page_row \in 0..PageSize)
    /\ [](pc = "page" => page_row = PageSize)
    /\ [][Streaming
            => \/ page_row' = page_row
               \/ page_row' = page_row + 1 /\ Count(reply', "ROW") = Count(reply, "ROW") + 1
               \/ /\ pc = "page" /\ got' = "line" /\ page_command' = "MORE"
                  /\ page_row' = 1
                  /\ Count(reply', "ROW") = Count(reply, "ROW") + 1]_vars
    /\ [](\A i \in 1..Len(Skeleton(reply)) - PageSize :
            \E k \in 0..PageSize : ~IsTag(Skeleton(reply)[i + k], "ROW"))

\* the counter is back at 3 after a MORE: six rows sent, the second PAGE out
C20_Witness ==
    /\ pc = "page"
    /\ page_row = 3
    /\ page_command = "MORE"
    /\ Count(reply, "ROW") = 6
    /\ Count(reply, "PAGE") = 2

=============================================================================
